---- MODULE Spec2Model ----
(***************************************************************************)
(* The autonomous snake animation of src/components/SnakeBackground.tsx:   *)
(* the state record behind stateRef, the functions initGame, spawnCoin,    *)
(* chooseDirection, moveSnake and drawFrame, and the effect that mounts    *)
(* the canvas, listens for resize events and runs the animation loop.      *)
(*                                                                         *)
(* Math.random() is modelled as a value n / RandDen. The host fixes, for   *)
(* each call by its number modulo a period, the numerators that call can   *)
(* return: a period of one set is an unconstrained source, a sequence of   *)
(* singletons a fixed pseudo-random sequence. Every use of a draw is       *)
(* computed as the code computes it (Math.floor(Math.random() * k),        *)
(* Math.random() < 0.15).                                                  *)
(*                                                                         *)
(* The module also holds the roll-forward of recurring budgets that the    *)
(* budget page's loadData runs (src/unnamed/part_005), over the rows of    *)
(* the budgets and transactions tables that belong to next month. The      *)
(* effect that calls loadData can run again while an earlier run is still  *)
(* awaiting the database, so every run has its own position and locals.    *)
(* BudgetSpec starts a run only when none is in flight, OverlapSpec at any *)
(* time. ToggleSpec is the page's handleToggleRecurring on the same rows.   *)
(* The specifications of the animation and of the budget page leave each   *)
(* other's variables at their initial values.                              *)
(***************************************************************************)
EXTENDS Integers, Sequences, FiniteSets, TLC

\* ---------------------------------------------------------------- constants

CELL_SIZE == 60
SNAKE_SPEED == 150
COIN_COUNT == 3
SNAKE_INITIAL_LENGTH == 5
\* while (attempts < 100)
MAX_ATTEMPTS == 100
\* if (snake.length > 20)
MAX_LENGTH == 20
\* if (anim.frame > 20)
ANIM_FRAMES == 20

\* Math.random() < 0.15, as the fraction RANDOM_TURN_NUM / RANDOM_TURN_DEN
RANDOM_TURN_NUM == 15
RANDOM_TURN_DEN == 100

\* Resolution of the random source: Math.random() returns n / RandDen, 0 <= n < RandDen.
RandDen == 4

Point(px, py) == [x |-> px, y |-> py]

DIRECTIONS ==
  [up |-> Point(0, -1), down |-> Point(0, 1), left |-> Point(-1, 0), right |-> Point(1, 0)]

OPPOSITE == [up |-> "down", down |-> "up", left |-> "right", right |-> "left"]

\* ["up", "down", "left", "right"], the array chooseDirection filters
DirectionOrder == <<"up", "down", "left", "right">>

\* ------------------------------------------------------------------ hosts

\* A host is what the browser gives the component: the window sizes it can
\* report (innerWidth, innerHeight), the gaps in milliseconds between two
\* animation frames, and its random source: random[i + 1] holds the numerators
\* that call number i (modulo the period Len(random)) of Math.random() can return.
Viewport(w, h) == [width |-> w, height |-> h]

AllRandoms == 0 .. (RandDen - 1)

\* Small windows, down to one too narrow for a single cell; any draw at any
\* call; frames 100 ms, 200 ms or, after a stall, 400 ms apart.
SmallHost ==
  [viewports |-> {Viewport(59, 130), Viewport(130, 200), Viewport(200, 200)},
   gaps |-> {100, 200, 400},
   random |-> <<AllRandoms>>]

\* A 1280 x 720 window (21 x 12 cells) with a fixed pseudo-random sequence of
\* period 6 and throttled frames: long runs, in which the snake grows to its cap.
DesktopHost ==
  [viewports |-> {Viewport(1280, 720)},
   gaps |-> {200},
   random |-> <<{1}, {3}, {2}, {2}, {2}, {3}>>]

Hosts == {SmallHost, DesktopHost}

\* -------------------------------------------------------------------- state

VARIABLES
  host,               \* the browser's behaviour, fixed for the whole run
  phase,              \* "created" | "mounted" | "unmounted": the effect's lifecycle
  pc,                 \* "idle" | "draw": position inside the loop callback
  listening,          \* the resize listener is registered on the window
  rafPending,         \* a requestAnimationFrame(loop) callback is outstanding
  canvas,             \* canvas.width, canvas.height
  elapsed,            \* timestamp of the last callback - lastMoveRef.current
  frameGap,           \* in a callback: its timestamp - the previous callback's (history)
  rng,                \* number of Math.random() calls so far, modulo the period
  snake,              \* state.snake, tail first, head last
  direction,          \* state.direction
  coins,              \* state.coins
  cols,               \* state.cols
  rows,               \* state.rows
  collectAnimations,  \* state.collectAnimations
  lastOp,             \* what the last step did (history, for stating properties)
  missed              \* a spawnCoin call gave up since the last initGame (history)

\* The budget page and the two tables it writes
VARIABLES
  budgetRows,         \* per category: number of budgets rows whose month is next month
  txRows,             \* per category: transactions dated in next month, those a user
                      \* recorded (manual) and those with the note of the roll-forward
                      \* (recurring)
  isMounted,          \* per effect run: its closure's isMounted
  loadPc,             \* per effect run: position of its loadData, "idle" when over
  loadIdx,            \* per effect run: 1-based index of `recurring` in recurringData
  existingBudget,     \* per effect run: the local of that name, TRUE for a row
  existingTx,         \* per effect run: the local of that name, TRUE for a row
  loadRuns,           \* number of loadData runs completed (bounds the model)
  recurringBudgets,   \* the page's state of that name: the categories with a recurrence
  beforeEnable        \* per category: its next-month rows when handleToggleRecurring
                      \* last enabled its recurrence (history)

loadVars == <<isMounted, loadPc, loadIdx, existingBudget, existingTx, loadRuns>>
toggleVars == <<recurringBudgets, beforeEnable>>
pageVars == <<budgetRows, txRows, loadVars, toggleVars>>

game == <<snake, direction, coins, cols, rows, collectAnimations>>
vars == <<host, phase, pc, listening, rafPending, canvas, elapsed, frameGap, rng, snake,
          direction, coins, cols, rows, collectAnimations, lastOp, missed>>

\* ------------------------------------------------------------- pure helpers

Abs(n) == IF n < 0 THEN -n ELSE n

\* The numerators call number pos of Math.random() can return.
Draws(random, pos) == random[(pos % Len(random)) + 1]

\* The call number after n more calls.
Advance(random, pos, n) == (pos + n) % Len(random)

\* Math.floor(Math.random() * k) for Math.random() = r / RandDen
RandomFloor(r, k) == (r * k) \div RandDen

\* seq.some((s) => s.x === px && s.y === py)
SomeAt(seq, px, py) == \E i \in 1 .. Len(seq) : seq[i].x = px /\ seq[i].y = py

\* seq.splice(i, 1) for a 1-based index i
Splice(seq, i) == SubSeq(seq, 1, i - 1) \o SubSeq(seq, i + 1, Len(seq))

\* seq.shift()
Shift(seq) == SubSeq(seq, 2, Len(seq))

\* ---------------------------------------------------------------- spawnCoin

\* The cells one attempt can sample when its first Math.random() call is call q:
\* x from call q, y from call q + 1.
SampleCells(random, q, c, r) ==
  {Point(RandomFloor(rx, c - 2) + 1, RandomFloor(ry, r - 2) + 1)
     : rx \in Draws(random, q), ry \in Draws(random, q + 1)}

\* occupied without the coins
occupiedSnakeOnly(sn, cs, p) == SomeAt(sn, p.x, p.y)

\* occupied without the snake
occupiedCoinsOnly(sn, cs, p) == SomeAt(cs, p.x, p.y)

\* const occupied = snake.some(...) || coins.some(...)
occupied(sn, cs, p) == SomeAt(sn, p.x, p.y) \/ SomeAt(cs, p.x, p.y)

\* An attempt whose first call is call q can sample an occupied cell.
canMiss(random, q, c, r, sn, cs) ==
  \E p \in SampleCells(random, q, c, r) : occupied(sn, cs, p)

\* What spawnCoin() can leave: the coin array, the call number after it, and
\* whether it pushed a coin.
\* Attempt j makes calls pos + 2j and pos + 2j + 1. The loop gets to attempt j
\* when every earlier attempt sampled an occupied cell; it pushes the sampled
\* cell if that is free, and gives up when all MAX_ATTEMPTS attempts sampled
\* occupied cells. Attempts a period apart draw from the same sets, so the
\* attempts of one period decide what the later ones can do.
spawnCoin(random, pos, c, r, sn, cs) ==
  LET period == Len(random)
      first == 0 .. ((IF period < MAX_ATTEMPTS THEN period ELSE MAX_ATTEMPTS) - 1)
      at(j) == (pos + 2 * j) % period
      mustPush == {j \in first : ~canMiss(random, at(j), c, r, sn, cs)}
      reached == {j \in first : \A i \in mustPush : i >= j}
  IN UNION {{[coins |-> Append(cs, p), rng |-> (at(j) + 2) % period, placed |-> TRUE]
               : p \in {p \in SampleCells(random, at(j), c, r) : ~occupied(sn, cs, p)}}
              : j \in reached}
       \cup (IF mustPush = {}
             THEN {[coins |-> cs, rng |-> Advance(random, pos, 2 * MAX_ATTEMPTS),
                    placed |-> FALSE]}
             ELSE {})

\* ----------------------------------------------------------------- initGame

RECURSIVE spawnCoinsShort(_, _, _, _, _, _, _, _)
\* spawnCoins with one call of spawnCoin fewer
spawnCoinsShort(i, random, pos, c, r, sn, cs, gaveUp) ==
  IF ~(i < COIN_COUNT - 1)
  THEN {[coins |-> cs, rng |-> pos, missed |-> gaveUp]}
  ELSE UNION {spawnCoinsShort(i + 1, random, s.rng, c, r, sn, s.coins, gaveUp \/ ~s.placed)
                : s \in spawnCoin(random, pos, c, r, sn, cs)}

RECURSIVE spawnCoins(_, _, _, _, _, _, _, _)
\* for (let i = 0; i < COIN_COUNT; i++) spawnCoin(), from i on; gaveUp: a call
\* of spawnCoin gave up
spawnCoins(i, random, pos, c, r, sn, cs, gaveUp) ==
  IF ~(i < COIN_COUNT)
  THEN {[coins |-> cs, rng |-> pos, missed |-> gaveUp]}
  ELSE UNION {spawnCoins(i + 1, random, s.rng, c, r, sn, s.coins, gaveUp \/ ~s.placed)
                : s \in spawnCoin(random, pos, c, r, sn, cs)}

\* initialSnake pushed from the head to the tail
initialSnakeHeadFirst(c, r) ==
  [j \in 1 .. SNAKE_INITIAL_LENGTH |-> Point((c \div 4) - (j - 1), r \div 2)]

\* initialSnake with one segment fewer
initialSnakeShort(c, r) ==
  [j \in 1 .. (SNAKE_INITIAL_LENGTH - 1) |-> Point((c \div 4) - (SNAKE_INITIAL_LENGTH - 1 - j), r \div 2)]

\* for (let i = SNAKE_INITIAL_LENGTH - 1; i >= 0; i--) snake.push({x: startX - i, y: startY})
initialSnake(c, r) ==
  LET startX == c \div 4
      startY == r \div 2
  IN [j \in 1 .. SNAKE_INITIAL_LENGTH |-> Point(startX - (SNAKE_INITIAL_LENGTH - j), startY)]

\* What initGame(width, height) can leave: the game, the call number after it,
\* and whether one of its spawnCoin calls gave up.
initGame(random, pos, width, height) ==
  LET c == width \div CELL_SIZE
      r == height \div CELL_SIZE
      sn == initialSnake(c, r)
  IN {[game |-> [cols |-> c, rows |-> r, snake |-> sn, direction |-> "right",
                 coins |-> s.coins, collectAnimations |-> <<>>],
       rng |-> s.rng, missed |-> s.missed]
        : s \in spawnCoins(0, random, pos, c, r, sn, <<>>, FALSE)}

\* ---------------------------------------------------------- chooseDirection

RECURSIVE nearestCoinFrom(_, _, _, _, _)
\* for (const coin of coins) { if (dist < nearestDist) ... }, from index i on:
\* the index of the nearest coin, 0 for null (nearestDist is Infinity then).
nearestCoinFrom(i, cs, head, nearest, nearestDist) ==
  IF i > Len(cs)
  THEN nearest
  ELSE LET dist == Abs(cs[i].x - head.x) + Abs(cs[i].y - head.y)
       IN IF nearest = 0 \/ dist < nearestDist
          THEN nearestCoinFrom(i + 1, cs, head, i, dist)
          ELSE nearestCoinFrom(i + 1, cs, head, nearest, nearestDist)

nearestCoin(cs, head) == nearestCoinFrom(1, cs, head, 0, 0)

\* .filter((d) => d !== OPPOSITE[direction])
possibleDirs(dir) == SelectSeq(DirectionOrder, LAMBDA d : d # OPPOSITE[dir])

\* isSafe without the self test
isSafeNoSelf(d, head, sn, c, r) ==
  LET nx == head.x + DIRECTIONS[d].x
      ny == head.y + DIRECTIONS[d].y
  IN ~(nx < 0 \/ nx >= c \/ ny < 0 \/ ny >= r)

\* the filter's test: no wall, no self
isSafe(d, head, sn, c, r) ==
  LET nx == head.x + DIRECTIONS[d].x
      ny == head.y + DIRECTIONS[d].y
  IN ~(nx < 0 \/ nx >= c \/ ny < 0 \/ ny >= r) /\ ~SomeAt(sn, nx, ny)

safeDirs(sn, dir, c, r) ==
  SelectSeq(possibleDirs(dir), LAMBDA d : isSafe(d, sn[Len(sn)], sn, c, r))

\* one step of the stable sort: e goes after every entry whose dist is not larger
insertByDist(sorted, e) ==
  LET k == Cardinality({i \in 1 .. Len(sorted) : sorted[i].dist <= e.dist})
  IN SubSeq(sorted, 1, k) \o <<e>> \o SubSeq(sorted, k + 1, Len(sorted))

\* sortByDist that leaves the array in the order of safeDirs
sortByDistUnsorted(s) == s

RECURSIVE sortByDist(_)
\* scored.sort((a, b) => a.dist - b.dist), a stable sort
sortByDist(s) ==
  IF s = <<>> THEN <<>> ELSE insertByDist(sortByDist(SubSeq(s, 1, Len(s) - 1)), s[Len(s)])

\* safeDirs.map((d) => ({dir: d, dist})) then sort
scoredDirs(safe, head, coin) ==
  sortByDist([i \in 1 .. Len(safe) |->
    [dir |-> safe[i],
     dist |-> Abs(coin.x - (head.x + DIRECTIONS[safe[i]].x))
              + Abs(coin.y - (head.y + DIRECTIONS[safe[i]].y))]])

\* Math.random() < 0.15 for Math.random() = r / RandDen
randomTurn(r) == r * RANDOM_TURN_DEN < RANDOM_TURN_NUM * RandDen

\* trappedDir that turns back
trappedDirReverse(dir) == OPPOSITE[dir]

\* if (safeDirs.length === 0) return direction
trappedDir(dir) == dir

\* What chooseDirection() can return: the direction and the call number after it.
\* scored.length > 1 && Math.random() < 0.15 draws only when there are two entries.
chooseDirection(random, pos, sn, cs, dir, c, r) ==
  LET head == sn[Len(sn)]
      nearest == nearestCoin(cs, head)
      safe == safeDirs(sn, dir, c, r)
  IN IF Len(safe) = 0
     THEN {[dir |-> trappedDir(dir), rng |-> pos]}
     ELSE IF nearest # 0
          THEN LET scored == scoredDirs(safe, head, cs[nearest])
               IN IF Len(scored) > 1
                  THEN {[dir |-> IF randomTurn(rnd) THEN scored[2].dir ELSE scored[1].dir,
                         rng |-> Advance(random, pos, 1)] : rnd \in Draws(random, pos)}
                  ELSE {[dir |-> scored[1].dir, rng |-> pos]}
          ELSE {[dir |-> safe[RandomFloor(rnd, Len(safe)) + 1],
                 rng |-> Advance(random, pos, 1)] : rnd \in Draws(random, pos)}

\* ---------------------------------------------------------------- moveSnake

\* state.coins.findIndex((c) => c.x === p.x && c.y === p.y), 1-based, 0 for -1
findIndex(cs, p) ==
  IF SomeAt(cs, p.x, p.y)
  THEN CHOOSE i \in 1 .. Len(cs) :
         /\ cs[i].x = p.x /\ cs[i].y = p.y
         /\ \A j \in 1 .. (i - 1) : ~(cs[j].x = p.x /\ cs[j].y = p.y)
  ELSE 0

\* capLength with the cap applied one segment late
capLengthLate(sn) == IF Len(sn) > MAX_LENGTH + 1 THEN Shift(sn) ELSE sn

\* if (snake.length > 20) snake.shift()
capLength(sn) == IF Len(sn) > MAX_LENGTH THEN Shift(sn) ELSE sn

\* collectCoin that leaves the collected coin in the array
collectCoinKeep(cs, coinIdx) == cs

\* state.coins.splice(coinIdx, 1)
collectCoin(cs, coinIdx) == Splice(cs, coinIdx)

\* settleSnake with the tail kept on every move
settleSnakeKeep(pushed, collected) == capLength(pushed)

\* settleSnake with the tail removed on every move
settleSnakeShift(pushed, collected) == capLength(Shift(pushed))

\* the snake after snake.push(newHead): a collected coin keeps the tail, any
\* other move shifts it; then the cap
settleSnake(pushed, collected) == capLength(IF collected THEN pushed ELSE Shift(pushed))

\* collides without the wall test
collidesNoWall(p, sn, c, r) == SomeAt(sn, p.x, p.y)

\* collides without the self test
collidesNoSelf(p, sn, c, r) == p.x < 0 \/ p.x >= c \/ p.y < 0 \/ p.y >= r

\* wall collision or self collision
collides(p, sn, c, r) == p.x < 0 \/ p.x >= c \/ p.y < 0 \/ p.y >= r \/ SomeAt(sn, p.x, p.y)

\* moveSnake() after state.direction = chooseDirection() returned d at call number
\* pos: what it did, the game it leaves, the call number after it, and whether a
\* spawnCoin call in it gave up.
moveTo(random, pos, g, cv, d) ==
  LET head == g.snake[Len(g.snake)]
      newHead == Point(head.x + DIRECTIONS[d].x, head.y + DIRECTIONS[d].y)
      pushed == Append(g.snake, newHead)
      coinIdx == findIndex(g.coins, newHead)
  IN IF collides(newHead, g.snake, g.cols, g.rows)
     THEN {[op |-> "reset", game |-> i.game, rng |-> i.rng, missed |-> i.missed]
             : i \in initGame(random, pos, cv.width, cv.height)}
     ELSE IF coinIdx # 0
          THEN {[op |-> "collect",
                 game |-> [g EXCEPT !.direction = d,
                                    !.snake = settleSnake(pushed, TRUE),
                                    !.collectAnimations =
                                       Append(@, [x |-> newHead.x, y |-> newHead.y, frame |-> 0]),
                                    !.coins = s.coins],
                 rng |-> s.rng,
                 missed |-> ~s.placed]
                  : s \in spawnCoin(random, pos, g.cols, g.rows, pushed,
                                    collectCoin(g.coins, coinIdx))}
          ELSE {[op |-> "move",
                 game |-> [g EXCEPT !.direction = d, !.snake = settleSnake(pushed, FALSE)],
                 rng |-> pos,
                 missed |-> FALSE]}

moveSnake(random, pos, g, cv) ==
  UNION {moveTo(random, c.rng, g, cv, c.dir)
           : c \in chooseDirection(random, pos, g.snake, g.coins, g.direction, g.cols, g.rows)}

\* ---------------------------------------------------------------- drawFrame

RECURSIVE drawAnimationsUp(_, _)
\* The loop of drawFrame run from the first animation up, from the 1-based
\* index i: a splice moves the next animation under the index just left.
drawAnimationsUp(anims, i) ==
  IF i > Len(anims)
  THEN anims
  ELSE LET aged == [anims EXCEPT ![i].frame = @ + 1]
       IN drawAnimationsUp(IF aged[i].frame > ANIM_FRAMES THEN Splice(aged, i) ELSE aged, i + 1)

\* drawFrame's loop in ascending order
drawAnimationsAscending(anims, i) == drawAnimationsUp(anims, 1)

RECURSIVE drawAnimations(_, _)
\* for (let i = collectAnimations.length - 1; i >= 0; i--) { ...; anim.frame++;
\*   if (anim.frame > 20) collectAnimations.splice(i, 1) }, from the 1-based index i down
drawAnimations(anims, i) ==
  IF i < 1
  THEN anims
  ELSE LET aged == [anims EXCEPT ![i].frame = @ + 1]
       IN drawAnimations(IF aged[i].frame > ANIM_FRAMES THEN Splice(aged, i) ELSE aged, i - 1)

\* What drawFrame leaves of state.collectAnimations; the rest of it only paints.
drawFrame(anims) == drawAnimations(anims, Len(anims))

\* ------------------------------------------------------------------ actions

Game ==
  [cols |-> cols, rows |-> rows, snake |-> snake, direction |-> direction, coins |-> coins,
   collectAnimations |-> collectAnimations]

SetGame(g) ==
  /\ cols' = g.cols
  /\ rows' = g.rows
  /\ snake' = g.snake
  /\ direction' = g.direction
  /\ coins' = g.coins
  /\ collectAnimations' = g.collectAnimations

\* useRef initial values: the state before the effect has run
InitIn(hosts) ==
  /\ host \in hosts
  /\ phase = "created"
  /\ pc = "idle"
  /\ listening = FALSE
  /\ rafPending = FALSE
  /\ canvas = Viewport(0, 0)
  /\ elapsed = 0
  /\ frameGap = 0
  /\ rng = 0
  /\ snake = <<>>
  /\ direction = "right"
  /\ coins = <<>>
  /\ cols = 0
  /\ rows = 0
  /\ collectAnimations = <<>>
  /\ lastOp = "none"
  /\ missed = FALSE

\* The effect runs whose closures can be alive at once
Runs == {"run1", "run2"}

\* No effect has run: no loadData is in flight.
NoRuns ==
  /\ isMounted = [r \in Runs |-> FALSE]
  /\ loadPc = [r \in Runs |-> "idle"]
  /\ loadIdx = [r \in Runs |-> 0]
  /\ existingBudget = [r \in Runs |-> FALSE]
  /\ existingTx = [r \in Runs |-> FALSE]
  /\ loadRuns = 0

\* The budget page is not open.
PageClosed ==
  /\ budgetRows = <<>>
  /\ txRows = <<>>
  /\ NoRuns
  /\ recurringBudgets = {}
  /\ beforeEnable = <<>>

Init == InitIn(Hosts) /\ PageClosed

\* useEffect body: resize(), addEventListener, requestAnimationFrame(loop)
Mount ==
  /\ phase = "created"
  /\ \E vp \in host.viewports :
       /\ canvas' = vp
       /\ \E i \in initGame(host.random, rng, vp.width, vp.height) :
            SetGame(i.game) /\ rng' = i.rng /\ missed' = i.missed
  /\ phase' = "mounted"
  /\ listening' = TRUE
  /\ rafPending' = TRUE
  /\ lastOp' = "mount"
  /\ UNCHANGED <<host, pc, elapsed, frameGap>>
  /\ UNCHANGED pageVars

\* resize() that calls initGame with the window's size and leaves the canvas as
\* it was
ResizeStale ==
  /\ listening
  /\ pc = "idle"
  /\ \E vp \in host.viewports :
       \E i \in initGame(host.random, rng, vp.width, vp.height) :
          SetGame(i.game) /\ rng' = i.rng /\ missed' = i.missed
  /\ lastOp' = "resize"
  /\ UNCHANGED <<host, phase, pc, listening, rafPending, elapsed, frameGap, canvas>>
  /\ UNCHANGED pageVars

\* the window's resize event: resize()
Resize ==
  /\ listening
  /\ pc = "idle"
  /\ \E vp \in host.viewports :
       /\ canvas' = vp
       /\ \E i \in initGame(host.random, rng, vp.width, vp.height) :
            SetGame(i.game) /\ rng' = i.rng /\ missed' = i.missed
  /\ lastOp' = "resize"
  /\ UNCHANGED <<host, phase, pc, listening, rafPending, elapsed, frameGap>>
  /\ UNCHANGED pageVars

\* loop(timestamp) that moves lastMoveRef on by one interval per move, to catch up
LoopTickCatchUp ==
  /\ rafPending
  /\ pc = "idle"
  /\ \E gap \in host.gaps :
       /\ frameGap' = gap
       /\ IF elapsed + gap > SNAKE_SPEED
          THEN /\ \E m \in moveSnake(host.random, rng, Game, canvas) :
                    /\ SetGame(m.game)
                    /\ rng' = m.rng
                    /\ lastOp' = m.op
                    /\ missed' = IF m.op = "reset" THEN m.missed ELSE missed \/ m.missed
               /\ elapsed' = elapsed + gap - SNAKE_SPEED
          ELSE /\ elapsed' = elapsed + gap
               /\ lastOp' = "wait"
               /\ UNCHANGED <<game, rng, missed>>
  /\ pc' = "draw"
  /\ rafPending' = FALSE
  /\ UNCHANGED <<host, phase, listening, canvas>>
  /\ UNCHANGED pageVars

\* loop(timestamp), up to the call of drawFrame
LoopTick ==
  /\ rafPending
  /\ pc = "idle"
  /\ \E gap \in host.gaps :
       /\ frameGap' = gap
       /\ IF elapsed + gap > SNAKE_SPEED
          THEN /\ \E m \in moveSnake(host.random, rng, Game, canvas) :
                    /\ SetGame(m.game)
                    /\ rng' = m.rng
                    /\ lastOp' = m.op
                    /\ missed' = IF m.op = "reset" THEN m.missed ELSE missed \/ m.missed
               /\ elapsed' = 0
          ELSE /\ elapsed' = elapsed + gap
               /\ lastOp' = "wait"
               /\ UNCHANGED <<game, rng, missed>>
  /\ pc' = "draw"
  /\ rafPending' = FALSE
  /\ UNCHANGED <<host, phase, listening, canvas>>
  /\ UNCHANGED pageVars

\* the rest of loop(timestamp) with a drawFrame that reverses state.snake in
\* place to paint it from the head
LoopDrawReversing ==
  /\ pc = "draw"
  /\ collectAnimations' = drawFrame(collectAnimations)
  /\ snake' = [i \in 1 .. Len(snake) |-> snake[Len(snake) + 1 - i]]
  /\ pc' = "idle"
  /\ frameGap' = 0
  /\ rafPending' = TRUE
  /\ lastOp' = "draw"
  /\ UNCHANGED <<host, phase, listening, canvas, elapsed, rng, direction, coins, cols, rows,
               missed>>
  /\ UNCHANGED pageVars

\* the rest of loop(timestamp) without the request of the next frame
LoopDrawOnce ==
  /\ pc = "draw"
  /\ collectAnimations' = drawFrame(collectAnimations)
  /\ pc' = "idle"
  /\ frameGap' = 0
  /\ rafPending' = FALSE
  /\ lastOp' = "draw"
  /\ UNCHANGED <<host, phase, listening, canvas, elapsed, rng, snake, direction, coins, cols,
               rows, missed>>
  /\ UNCHANGED pageVars

\* loop(timestamp), from drawFrame on: draw, then request the next frame
LoopDraw ==
  /\ pc = "draw"
  /\ collectAnimations' = drawFrame(collectAnimations)
  /\ pc' = "idle"
  /\ frameGap' = 0
  /\ rafPending' = TRUE
  /\ lastOp' = "draw"
  /\ UNCHANGED <<host, phase, listening, canvas, elapsed, rng, snake, direction, coins, cols,
               rows, missed>>
  /\ UNCHANGED pageVars

\* the cleanup without cancelAnimationFrame
UnmountNoCancel ==
  /\ phase = "mounted"
  /\ pc = "idle"
  /\ phase' = "unmounted"
  /\ listening' = FALSE
  /\ lastOp' = "unmount"
  /\ UNCHANGED <<host, pc, rafPending, canvas, elapsed, frameGap, rng, game, missed>>
  /\ UNCHANGED pageVars

\* the effect's cleanup: removeEventListener, cancelAnimationFrame
Unmount ==
  /\ phase = "mounted"
  /\ pc = "idle"
  /\ phase' = "unmounted"
  /\ listening' = FALSE
  /\ rafPending' = FALSE
  /\ lastOp' = "unmount"
  /\ UNCHANGED <<host, pc, canvas, elapsed, frameGap, rng, game, missed>>
  /\ UNCHANGED pageVars

Next == Mount \/ Resize \/ LoopTick \/ LoopDraw \/ Unmount

Spec == Init /\ [][Next]_vars

\* While the component is mounted the browser keeps running the requested
\* animation-frame callback, and a callback that started runs to its end.
\* The second conjunct is WF_vars(LoopTick) with ENABLED <<LoopTick>>_vars
\* written out: LoopTick can step exactly when a callback is requested and none
\* is running, since moveSnake always has an outcome and the step changes pc.
FairSpec ==
  /\ Spec
  /\ ([]<>~(rafPending /\ pc = "idle") \/ []<><<LoopTick>>_vars)
  /\ WF_vars(LoopDraw)

\* ------------------------------------------------- budget page: loadData

\* Most loadData runs the model follows, and most transactions dated in next
\* month that a user records per category.
MaxRuns == 3
MaxManual == 2

\* recurringData: the category_id of each row of recurring_budgets
recurringData == <<"rent", "gym">>

Categories == {recurringData[i] : i \in 1 .. Len(recurringData)}

\* The data of a select ... maybeSingle() that matches n rows: the row when
\* there is exactly one; null when there is none, and null again, with an error
\* the caller does not read, when there are several.
maybeSingle(n) == n = 1

\* The rows of a category that belong to next month
NextMonthRows(cat) == [budget |-> budgetRows[cat], tx |-> txRows[cat]]

\* The page opens on tables in which a recurring category has at most one
\* budget row for next month, at most one roll-forward transaction dated in
\* next month, and up to MaxManual transactions a user recorded for next month.
BudgetInit ==
  /\ InitIn({DesktopHost})
  /\ budgetRows \in [Categories -> 0 .. 1]
  /\ txRows \in [Categories -> [manual : 0 .. MaxManual, recurring : 0 .. 1]]
  /\ NoRuns
  /\ recurringBudgets = Categories
  /\ beforeEnable = [cat \in Categories |-> NextMonthRows(cat)]

\* No loadData is in flight.
NoRunInFlight == \A r \in Runs : loadPc[r] = "idle"

\* The effect runs (again): the cleanup of the earlier runs clears their
\* isMounted, and the new closure r sets its own and calls loadData(), which
\* goes on to the roll-forward when that isMounted is still set, the active
\* month is the current month and recurringData is not empty.
LoadData(r) ==
  /\ loadPc[r] = "idle"
  /\ loadRuns < MaxRuns
  /\ isMounted' = [q \in Runs |-> q = r]
  /\ \E isCurrentMonth \in BOOLEAN :
       IF isCurrentMonth /\ Len(recurringData) > 0
       THEN /\ loadPc' = [loadPc EXCEPT ![r] = "selectBudget"]
            /\ loadIdx' = [loadIdx EXCEPT ![r] = 1]
            /\ loadRuns' = loadRuns
       ELSE /\ loadPc' = [loadPc EXCEPT ![r] = "idle"]
            /\ loadIdx' = [loadIdx EXCEPT ![r] = 0]
            /\ loadRuns' = loadRuns + 1
  /\ UNCHANGED <<budgetRows, txRows, existingBudget, existingTx>>
  /\ UNCHANGED toggleVars
  /\ UNCHANGED vars

\* The effect runs when no loadData is in flight.
LoadDataAlone(r) == NoRunInFlight /\ LoadData(r)

\* const { data: existingBudget } = await supabase.from("budgets").select("id")
\*   ... .eq("month", nextMonthDateStr).maybeSingle()
SelectBudget(r) ==
  /\ loadPc[r] = "selectBudget"
  /\ existingBudget' =
       [existingBudget EXCEPT ![r] = maybeSingle(budgetRows[recurringData[loadIdx[r]]])]
  /\ loadPc' = [loadPc EXCEPT ![r] = "insertBudget"]
  /\ UNCHANGED <<budgetRows, txRows, isMounted, loadIdx, existingTx, loadRuns>>
  /\ UNCHANGED toggleVars
  /\ UNCHANGED vars

\* if (!existingBudget) await supabase.from("budgets").insert({...})
InsertBudget(r) ==
  /\ loadPc[r] = "insertBudget"
  /\ budgetRows' = IF ~existingBudget[r]
                   THEN [budgetRows EXCEPT ![recurringData[loadIdx[r]]] = @ + 1]
                   ELSE budgetRows
  /\ loadPc' = [loadPc EXCEPT ![r] = "selectTx"]
  /\ UNCHANGED <<txRows, isMounted, loadIdx, existingBudget, existingTx, loadRuns>>
  /\ UNCHANGED toggleVars
  /\ UNCHANGED vars

\* const { data: existingTx } = await supabase.from("transactions").select("id")
\*   ... .gte("date", nextMonthDateStr).lt("date", monthAfterKey).maybeSingle()
SelectTx(r) ==
  /\ loadPc[r] = "selectTx"
  /\ existingTx' =
       [existingTx EXCEPT ![r] = LET matching == txRows[recurringData[loadIdx[r]]]
                                 IN maybeSingle(matching.manual + matching.recurring)]
  /\ loadPc' = [loadPc EXCEPT ![r] = "insertTx"]
  /\ UNCHANGED <<budgetRows, txRows, isMounted, loadIdx, existingBudget, loadRuns>>
  /\ UNCHANGED toggleVars
  /\ UNCHANGED vars

\* if (!existingTx) await supabase.from("transactions").insert({..., note:
\* "Dépense récurrente"}); then the next row of recurringData, or the end of loadData
InsertTx(r) ==
  /\ loadPc[r] = "insertTx"
  /\ txRows' = IF ~existingTx[r]
               THEN [txRows EXCEPT ![recurringData[loadIdx[r]]].recurring = @ + 1]
               ELSE txRows
  /\ IF loadIdx[r] < Len(recurringData)
     THEN /\ loadPc' = [loadPc EXCEPT ![r] = "selectBudget"]
          /\ loadIdx' = [loadIdx EXCEPT ![r] = @ + 1]
          /\ loadRuns' = loadRuns
     ELSE /\ loadPc' = [loadPc EXCEPT ![r] = "idle"]
          /\ loadIdx' = [loadIdx EXCEPT ![r] = 0]
          /\ loadRuns' = loadRuns + 1
  /\ UNCHANGED <<budgetRows, isMounted, existingBudget, existingTx>>
  /\ UNCHANGED toggleVars
  /\ UNCHANGED vars

\* While no loadData is in flight the user records a transaction dated in next
\* month on the transactions page, whose date field takes any date.
AddTransaction ==
  /\ NoRunInFlight
  /\ \E cat \in Categories :
       /\ txRows[cat].manual < MaxManual
       /\ txRows' = [txRows EXCEPT ![cat].manual = @ + 1]
  /\ UNCHANGED <<budgetRows, isMounted, loadPc, loadIdx, existingBudget, existingTx, loadRuns>>
  /\ UNCHANGED toggleVars
  /\ UNCHANGED vars

\* One await of a loadData in flight is answered.
LoadStep(r) == SelectBudget(r) \/ InsertBudget(r) \/ SelectTx(r) \/ InsertTx(r)

BudgetNext == (\E r \in Runs : LoadDataAlone(r) \/ LoadStep(r)) \/ AddTransaction

BudgetSpec == BudgetInit /\ [][BudgetNext]_<<vars, pageVars>>

\* The page opens on tables without rows for next month.
OverlapInit ==
  /\ InitIn({DesktopHost})
  /\ budgetRows = [cat \in Categories |-> 0]
  /\ txRows = [cat \in Categories |-> [manual |-> 0, recurring |-> 0]]
  /\ NoRuns
  /\ recurringBudgets = Categories
  /\ beforeEnable = [cat \in Categories |-> NextMonthRows(cat)]

OverlapNext == \E r \in Runs : LoadData(r) \/ LoadStep(r)

\* loadData runs that overlap: the effect runs again, on a change of the month
\* and back or of the user, while an earlier run awaits the database.
OverlapSpec == OverlapInit /\ [][OverlapNext]_<<vars, pageVars>>

\* ---------------------------------------- budget page: handleToggleRecurring

\* The page opens with no recurrence, on tables in which a category has at most
\* one budget row for next month (saved with next month as the active month),
\* no roll-forward transaction and up to MaxManual transactions a user
\* recorded for next month.
ToggleInit ==
  /\ InitIn({DesktopHost})
  /\ budgetRows \in [Categories -> 0 .. 1]
  /\ txRows \in [Categories -> [manual : 0 .. MaxManual, recurring : {0}]]
  /\ NoRuns
  /\ recurringBudgets = {}
  /\ beforeEnable = [cat \in Categories |-> NextMonthRows(cat)]

\* the branch of handleToggleRecurring for a category with a recurrence: delete
\* the recurrence, every transaction of the category dated in next month and
\* its budget rows of next month
disableRecurring(cat) ==
  /\ recurringBudgets' = recurringBudgets \ {cat}
  /\ txRows' = [txRows EXCEPT ![cat] = [manual |-> 0, recurring |-> 0]]
  /\ budgetRows' = [budgetRows EXCEPT ![cat] = 0]
  /\ UNCHANGED beforeEnable

\* the branch of handleToggleRecurring for a category without one: insert the
\* recurrence, then a budget row and a transaction for next month unless
\* maybeSingle() finds one
enableRecurring(cat) ==
  /\ recurringBudgets' = recurringBudgets \cup {cat}
  /\ budgetRows' = IF ~maybeSingle(budgetRows[cat])
                   THEN [budgetRows EXCEPT ![cat] = @ + 1]
                   ELSE budgetRows
  /\ txRows' = IF ~maybeSingle(txRows[cat].manual + txRows[cat].recurring)
               THEN [txRows EXCEPT ![cat].recurring = @ + 1]
               ELSE txRows
  /\ beforeEnable' = [beforeEnable EXCEPT ![cat] = NextMonthRows(cat)]

\* handleToggleRecurring(categoryId): refused outside the current month, and for
\* a category without a recurrence whose budget of the active month is 0
handleToggleRecurring(cat) ==
  /\ \E isCurrentMonth \in BOOLEAN, amount \in {0, 50} :
       IF ~isCurrentMonth
       THEN UNCHANGED <<budgetRows, txRows, toggleVars>>
       ELSE IF cat \in recurringBudgets
            THEN disableRecurring(cat)
            ELSE IF amount = 0
                 THEN UNCHANGED <<budgetRows, txRows, toggleVars>>
                 ELSE enableRecurring(cat)
  /\ UNCHANGED loadVars
  /\ UNCHANGED vars

ToggleNext == \E cat \in Categories : handleToggleRecurring(cat)

ToggleSpec == ToggleInit /\ [][ToggleNext]_<<vars, pageVars>>

\* ------------------------------------------------------------------ claims

\* The step is the call of moveSnake() in a loop callback.
TickStep == pc = "idle" /\ pc' = "draw" /\ lastOp' \in {"move", "collect", "reset"}

\* ... and moveSnake() did not reset the game.
MoveStep == TickStep /\ lastOp' # "reset"

\* ... and the head moved onto a coin.
CollectStep == TickStep /\ lastOp' = "collect"

\* ... and moveSnake() reset the game.
ResetStep == TickStep /\ lastOp' = "reset"

\* The step is the call of drawFrame() in a loop callback.
DrawStep == pc = "draw" /\ pc' = "idle"

HeadOf(sn) == sn[Len(sn)]

InBounds(p, c, r) == 0 <= p.x /\ p.x < c /\ 0 <= p.y /\ p.y < r

\* C1: after a Tick that does not reset, the new head is the last segment, lies
\* inside the grid and is a cell no segment (the tail included) occupied before
\* the Tick.
C1_NewHeadFree ==
  [][MoveStep =>
       /\ InBounds(HeadOf(snake'), cols, rows)
       /\ ~SomeAt(snake, HeadOf(snake').x, HeadOf(snake').y)
       /\ cols' = cols /\ rows' = rows]_vars

\* C1's case: a Tick has just moved a snake that had a wall next to its head.
C1_Witness ==
  /\ pc = "draw"
  /\ lastOp = "move"
  /\ HeadOf(snake).x = cols - 1
  /\ HeadOf(snake).y = 0

\* C2: once the game is initialised the snake has at least SNAKE_INITIAL_LENGTH
\* and at most MAX_LENGTH segments.
C2_LengthBounds ==
  phase # "created" => SNAKE_INITIAL_LENGTH <= Len(snake) /\ Len(snake) <= MAX_LENGTH

\* C2's case: the snake is at its cap and a Tick has just moved it.
C2_Witness == lastOp = "move" /\ Len(snake) = MAX_LENGTH

\* C3 as stated: a Tick that collects a coin leaves the snake one segment longer,
\* whatever its length was.
C3_AlwaysGrows == [][CollectStep => Len(snake') = Len(snake) + 1]_vars

\* C3 as amended: a Tick that collects a coin leaves the snake one segment
\* longer when it had fewer than MAX_LENGTH segments; at MAX_LENGTH segments the
\* cap removes the tail after the growth and the length stays MAX_LENGTH.
C3_GrowsBelowCap ==
  [][CollectStep =>
       Len(snake') = IF Len(snake) < MAX_LENGTH THEN Len(snake) + 1 ELSE MAX_LENGTH]_vars

\* C3's case: a Tick has just collected a coin with the snake at its cap.
C3_Witness == pc = "draw" /\ lastOp = "collect" /\ Len(snake) = MAX_LENGTH

\* C4: a Tick that moves the head onto a coin removes that coin, appends exactly
\* one animation at the new head with frame 0, and calls the placement once: the
\* coins are the old ones without the collected one, followed by at most one new
\* coin, and no coin lies on the new head.
C4_CollectEffects ==
  [][CollectStep =>
       LET h == HeadOf(snake')
           idx == findIndex(coins, h)
           rest == Splice(coins, idx)
       IN /\ idx # 0
          /\ ~SomeAt(coins', h.x, h.y)
          /\ collectAnimations' = Append(collectAnimations, [x |-> h.x, y |-> h.y, frame |-> 0])
          /\ \/ coins' = rest
             \/ /\ Len(coins') = Len(rest) + 1
                /\ SubSeq(coins', 1, Len(rest)) = rest
                /\ HeadOf(coins') # h]_vars

\* C4's case: a Tick has just collected a coin and a replacement was placed.
C4_Witness ==
  /\ pc = "draw"
  /\ lastOp = "collect"
  /\ Len(coins) = COIN_COUNT
  /\ collectAnimations # <<>>
  /\ HeadOf(collectAnimations) = [x |-> HeadOf(snake).x, y |-> HeadOf(snake).y, frame |-> 0]

\* The cell next to the head in direction d is outside the grid or on the snake.
Blocked(d) ==
  LET h == HeadOf(snake)
      p == Point(h.x + DIRECTIONS[d].x, h.y + DIRECTIONS[d].y)
  IN ~InBounds(p, cols, rows) \/ SomeAt(snake, p.x, p.y)

\* Every direction but the reverse of the current one is blocked, so the
\* direction chosen by the Tick leads into a wall or into the snake.
Trapped == \A d \in {"up", "down", "left", "right"} \ {OPPOSITE[direction]} : Blocked(d)

\* C5: a Tick resets the game exactly when its chosen direction leads out of
\* the grid or onto a segment; after the reset the snake has its
\* SNAKE_INITIAL_LENGTH segments in the initial horizontal placement of the same
\* grid, the direction is right and there is no animation.
C5_CollisionResets ==
  [][TickStep =>
       /\ (lastOp' = "reset") <=> Trapped
       /\ lastOp' = "reset" =>
            /\ Blocked(direction)
            /\ cols' = cols /\ rows' = rows
            /\ Len(snake') = SNAKE_INITIAL_LENGTH
            /\ \A j \in 1 .. SNAKE_INITIAL_LENGTH :
                 snake'[j] = Point((cols \div 4) - (SNAKE_INITIAL_LENGTH - j), rows \div 2)
            /\ direction' = "right"
            /\ collectAnimations' = <<>>
            /\ Len(coins') <= COIN_COUNT]_vars

\* C5's case: a Tick has just reset the game and all coins were placed again.
C5_Witness ==
  /\ pc = "draw"
  /\ lastOp = "reset"
  /\ Len(snake) = SNAKE_INITIAL_LENGTH
  /\ direction = "right"
  /\ Len(coins) = COIN_COUNT

\* C6: there are never more than COIN_COUNT coins.
C6_CoinsAtMost == Len(coins) <= COIN_COUNT

\* C6's case: a Tick has just collected a coin while all three were present and
\* the placement has filled the set again.
C6_Witness == lastOp = "collect" /\ Len(coins) = COIN_COUNT /\ Len(snake) > SNAKE_INITIAL_LENGTH + 1

\* A step that runs initGame: the mount, a resize, or a Tick that resets.
InitStep == lastOp' \in {"mount", "resize", "reset"}

\* A cell that spawnCoin's sampling range covers is neither on the snake nor
\* on a coin.
FreeInteriorCell ==
  \E px \in 1 .. (cols - 2), py \in 1 .. (rows - 2) : ~occupied(snake, coins, Point(px, py))

\* A spawnCoin call gave up since the last initGame, coins are missing and a
\* free cell exists.
Shortfall == phase = "mounted" /\ missed /\ Len(coins) < COIN_COUNT /\ FreeInteriorCell

\* C7 as stated: a shortfall after a failed placement is followed, while the
\* component stays mounted, by a state with COIN_COUNT coins that no initGame
\* call has produced.
C7_ShortfallRecovers ==
  Shortfall ~> (phase = "unmounted" \/ (missed /\ Len(coins) = COIN_COUNT))

\* C7 as amended: a shortfall lasts until the next initGame. A step that does
\* not run initGame never adds to the number of coins, there are COIN_COUNT
\* coins while no spawnCoin call has given up since the last initGame, and
\* fewer once one has.
C7_ShortfallPersists ==
  /\ [](phase # "created" =>
         IF missed THEN Len(coins) < COIN_COUNT ELSE Len(coins) = COIN_COUNT)
  /\ [][~InitStep => Len(coins') <= Len(coins) /\ (missed => missed')]_vars

\* C7's case: a spawnCoin call after a collection gave up although free cells
\* exist, and the game has gone on for another Tick without the coin.
C7_Witness ==
  /\ Shortfall
  /\ lastOp = "move"
  /\ Len(snake) > SNAKE_INITIAL_LENGTH

\* C8: a call of drawFrame adds exactly 1 to the frame of every animation
\* present at its start and removes exactly those whose frame then exceeds
\* ANIM_FRAMES, keeping the others in order.
C8_RenderAges ==
  [][DrawStep =>
       LET aged == [i \in 1 .. Len(collectAnimations) |->
                      [collectAnimations[i] EXCEPT !.frame = @ + 1]]
       IN collectAnimations' = SelectSeq(aged, LAMBDA a : ~(a.frame > ANIM_FRAMES))]_vars

\* C8's case: drawFrame has just aged several animations and kept the oldest,
\* whose frame is now ANIM_FRAMES and which the next call removes.
C8_Witness ==
  /\ lastOp = "draw"
  /\ Len(collectAnimations) >= 2
  /\ collectAnimations[1].frame = ANIM_FRAMES

\* The random sources that return one fixed value per call number.
FixedStreams == {<<{a}, {b}, {c}>> : a \in AllRandoms, b \in AllRandoms, c \in AllRandoms}

IsFixed(random) == \A k \in 1 .. Len(random) : Cardinality(random[k]) = 1

\* The canvas sizes that give the grid of c columns and r rows.
SameGridCanvases(c, r) ==
  {Viewport(w, h) : w \in {c * CELL_SIZE, c * CELL_SIZE + CELL_SIZE - 1},
                    h \in {r * CELL_SIZE, r * CELL_SIZE + CELL_SIZE - 1}}

\* C9: a Tick is a function of the game (grid, snake, direction, coins,
\* animations) and of the random values it draws: for every fixed sequence of
\* random values moveSnake has one outcome, the same for every canvas a copy
\* with this grid can have, also when it resets; and under a host whose
\* sequence is fixed the Tick taken leaves that outcome.
C9_TickDeterministic ==
  [][TickStep =>
       /\ \A stream \in FixedStreams :
            LET out == moveSnake(stream, 0, Game, canvas)
            IN /\ Cardinality(out) = 1
               /\ \A cv \in SameGridCanvases(cols, rows) : moveSnake(stream, 0, Game, cv) = out
       /\ IsFixed(host.random) =>
            \E m \in moveSnake(host.random, rng, Game, canvas) :
               /\ moveSnake(host.random, rng, Game, canvas) = {m}
               /\ Game' = m.game
               /\ rng' = m.rng]_vars

\* C9's case: under a fixed random sequence a Tick has just reset the game on
\* a canvas whose width is not a whole number of cells.
C9_Witness ==
  /\ pc = "draw"
  /\ lastOp = "reset"
  /\ IsFixed(host.random)
  /\ canvas.width % CELL_SIZE # 0

\* C10: once the game is initialised no two segments of the snake are on the
\* same cell.
C10_NoOverlap ==
  phase # "created" =>
    \A i \in 1 .. Len(snake) : \A j \in 1 .. Len(snake) : i # j => snake[i] # snake[j]

\* C10's case: a Tick has just moved the head next to a segment of the snake
\* other than its neck.
C10_Witness ==
  /\ pc = "draw"
  /\ lastOp \in {"move", "collect"}
  /\ \E i \in 1 .. (Len(snake) - 2) :
       Abs(snake[i].x - HeadOf(snake).x) + Abs(snake[i].y - HeadOf(snake).y) = 1

\* The last step ran initGame: the state is the one initGame left.
JustInitialised == lastOp \in {"mount", "resize", "reset"}

\* C11 as stated: after initGame, whatever the window's size, every segment of
\* the snake lies inside the grid.
C11_InitialSnakeInBounds ==
  JustInitialised => \A i \in 1 .. Len(snake) : InBounds(snake[i], cols, rows)

\* The step is a loop callback up to its call of drawFrame.
LoopStep == pc = "idle" /\ pc' = "draw"

\* C12: a loop callback calls moveSnake exactly when its timestamp minus the
\* timestamp of the last callback that did is above SNAKE_SPEED; it then calls
\* it once, however long the gap was, and takes its own timestamp as the last
\* one; otherwise it leaves the game alone and lastMoveRef as it was.
C12_OneTickPerCallback ==
  [][LoopStep =>
       LET sinceMove == elapsed + frameGap'
       IN /\ frameGap' \in host.gaps
          /\ (lastOp' \in {"move", "collect", "reset"}) <=> (sinceMove > SNAKE_SPEED)
          /\ sinceMove > SNAKE_SPEED =>
               /\ elapsed' = 0
               /\ \E m \in moveSnake(host.random, rng, Game, canvas) : Game' = m.game
          /\ ~(sinceMove > SNAKE_SPEED) =>
               /\ lastOp' = "wait"
               /\ elapsed' = sinceMove
               /\ Game' = Game]_vars

\* C12's case: a callback came more than two intervals after the last move
\* and has moved the snake by one cell.
C12_Witness ==
  /\ pc = "draw"
  /\ lastOp = "move"
  /\ frameGap > 2 * SNAKE_SPEED
  /\ elapsed = 0
  /\ Len(snake) >= 2
  /\ Abs(HeadOf(snake).x - snake[Len(snake) - 1].x)
       + Abs(HeadOf(snake).y - snake[Len(snake) - 1].y) = 1

\* C13: once the cleanup has run, the resize listener is removed and no
\* animation frame is requested, and nothing happens any more: no Tick, no
\* drawFrame, no initGame.
C13_TeardownStops ==
  /\ [](phase = "unmounted" => ~listening /\ ~rafPending /\ pc = "idle")
  /\ [][phase # "unmounted"]_vars

\* C13's case: the cleanup has run between two callbacks of a game in progress.
C13_Witness ==
  /\ phase = "unmounted"
  /\ lastOp = "unmount"
  /\ Len(snake) > SNAKE_INITIAL_LENGTH
  /\ collectAnimations # <<>>

\* C14: a call of drawFrame leaves the snake, the direction, the coins and the
\* grid as they were; of the animations only the frame counters change, and
\* animations are only removed.
C14_RenderKeepsGame ==
  [][DrawStep =>
       /\ snake' = snake
       /\ direction' = direction
       /\ coins' = coins
       /\ cols' = cols
       /\ rows' = rows
       /\ Len(collectAnimations') <= Len(collectAnimations)
       /\ \A i \in 1 .. Len(collectAnimations') :
            \E j \in 1 .. Len(collectAnimations) :
               /\ collectAnimations'[i].x = collectAnimations[j].x
               /\ collectAnimations'[i].y = collectAnimations[j].y]_vars

\* C14's case: drawFrame has just painted a grown snake, its coins and an
\* animation in progress.
C14_Witness ==
  /\ lastOp = "draw"
  /\ Len(snake) > SNAKE_INITIAL_LENGTH
  /\ Len(coins) = COIN_COUNT
  /\ \E i \in 1 .. Len(collectAnimations) : collectAnimations[i].frame > 1

\* The cell next to the head of the snake in direction d.
Ahead(d) == Point(HeadOf(snake).x + DIRECTIONS[d].x, HeadOf(snake).y + DIRECTIONS[d].y)

\* C16: a Tick resets the game if and only if none of the three directions
\* other than the reverse leads to a cell inside the grid that no segment
\* occupies; when there is such a direction, every direction chooseDirection can
\* return is one, and the Tick moves the head to the cell in the direction taken.
C16_ResetIffTrapped ==
  [][TickStep =>
       /\ Trapped <=> (lastOp' = "reset")
       /\ ~Trapped =>
            /\ \A c \in chooseDirection(host.random, rng, snake, coins, direction, cols, rows) :
                 c.dir # OPPOSITE[direction] /\ ~Blocked(c.dir)
            /\ direction' # OPPOSITE[direction]
            /\ ~Blocked(direction')
            /\ HeadOf(snake') = Ahead(direction')
            /\ snake'[Len(snake') - 1] = HeadOf(snake)]_vars

\* C16's case: a Tick has just turned a snake whose way straight on was
\* blocked by one of its own segments: the cell beyond the head in line with
\* the cell before the neck is on the snake.
C16_Witness ==
  /\ pc = "draw"
  /\ lastOp = "move"
  /\ Len(snake) >= 4
  /\ LET h == snake[Len(snake) - 1]
         n == snake[Len(snake) - 2]
     IN /\ HeadOf(snake) # Point(2 * h.x - n.x, 2 * h.y - n.y)
        /\ SomeAt(snake, 2 * h.x - n.x, 2 * h.y - n.y)

\* C17: chooseDirection never returns the reverse of the current direction,
\* and returns the current direction when the snake is trapped; a Tick that
\* does not reset never leaves the reverse of the direction it found.
C17_NoReverse ==
  [][TickStep =>
       /\ \A c \in chooseDirection(host.random, rng, snake, coins, direction, cols, rows) :
            /\ c.dir # OPPOSITE[direction]
            /\ Trapped => c.dir = direction
       /\ lastOp' # "reset" =>
            /\ direction' # OPPOSITE[direction]
            /\ HeadOf(snake') # snake[Len(snake) - 1]]_vars

\* C17's case: a Tick has just made the snake turn by a quarter.
C17_Witness ==
  /\ pc = "draw"
  /\ lastOp \in {"move", "collect"}
  /\ Len(snake) >= 3
  /\ LET h == HeadOf(snake)
         n == snake[Len(snake) - 1]
         b == snake[Len(snake) - 2]
     IN /\ Point(h.x - n.x, h.y - n.y) = DIRECTIONS[direction]
        /\ Point(n.x - b.x, n.y - b.y) # DIRECTIONS[direction]
        /\ Point(n.x - b.x, n.y - b.y) # DIRECTIONS[OPPOSITE[direction]]

Manhattan(p, q) == Abs(p.x - q.x) + Abs(p.y - q.y)

\* The coin nearest to the cell p, the first of the array among equally near ones.
NearestTo(p) ==
  coins[CHOOSE k \in 1 .. Len(coins) :
          \A j \in 1 .. Len(coins) :
             /\ Manhattan(coins[k], p) <= Manhattan(coins[j], p)
             /\ j < k => Manhattan(coins[j], p) > Manhattan(coins[k], p)]

\* The directions other than the reverse that lead to a free cell of the grid.
SafeSet == {d \in {"up", "down", "left", "right"} \ {OPPOSITE[direction]} : ~Blocked(d)}

\* The place of d in ["up", "down", "left", "right"].
OrderOf(d) == CHOOSE k \in 1 .. Len(DirectionOrder) : DirectionOrder[k] = d

\* The number of safe directions that come before d when the safe directions
\* are ordered by the distance from their cell to the nearest coin, equal
\* distances in the order of the array.
Rank(d) ==
  LET coin == NearestTo(HeadOf(snake))
      dist(e) == Manhattan(Ahead(e), coin)
  IN Cardinality({e \in SafeSet :
                    \/ dist(e) < dist(d)
                    \/ dist(e) = dist(d) /\ OrderOf(e) < OrderOf(d)})

\* C18: with a coin and a safe direction, chooseDirection returns the first
\* or the second of the safe directions in ascending order of the distance
\* from their cell to the coin nearest the head, never a later one, and the
\* only safe direction when there is one; the Tick takes such a direction.
C18_BestOrSecondBest ==
  [][TickStep /\ coins # <<>> /\ ~Trapped =>
       /\ \A c \in chooseDirection(host.random, rng, snake, coins, direction, cols, rows) :
            c.dir \in SafeSet /\ Rank(c.dir) <= 1
       /\ direction' \in SafeSet
       /\ Rank(direction') <= 1]_vars

\* C18's case: a Tick has just moved the head away from the coin nearest to
\* the cell it came from, the second-best direction or the only safe one.
C18_Witness ==
  /\ pc = "draw"
  /\ lastOp = "move"
  /\ coins # <<>>
  /\ LET from == snake[Len(snake) - 1]
     IN Manhattan(HeadOf(snake), NearestTo(from)) > Manhattan(from, NearestTo(from))

\* C19 as stated: every coin lies in the interior of the grid, whatever the
\* grid initGame computed.
C19_CoinsInInterior ==
  \A i \in 1 .. Len(coins) :
     /\ 1 <= coins[i].x /\ coins[i].x <= cols - 2
     /\ 1 <= coins[i].y /\ coins[i].y <= rows - 2

\* C20: a call of spawnCoin adds one coin or none. After a collection the
\* coins are the remaining ones, unchanged when the call gave up, or followed
\* by one coin on a cell that neither the snake with its new head nor a
\* remaining coin occupied; the snake and the animations are what the move
\* alone left. After initGame, whose calls start from no coin, there are at
\* most COIN_COUNT coins, on different cells, none on the snake, and fewer than
\* COIN_COUNT only when a call gave up.
C20_PlacementAddsFreeCell ==
  [][/\ CollectStep =>
          LET h == HeadOf(snake')
              rest == Splice(coins, findIndex(coins, h))
              pushed == Append(snake, h)
          IN /\ \/ coins' = rest /\ missed'
                \/ /\ Len(coins') = Len(rest) + 1
                   /\ SubSeq(coins', 1, Len(rest)) = rest
                   /\ ~SomeAt(pushed, HeadOf(coins').x, HeadOf(coins').y)
                   /\ ~SomeAt(rest, HeadOf(coins').x, HeadOf(coins').y)
             /\ snake' = capLength(pushed)
             /\ Len(collectAnimations') = Len(collectAnimations) + 1
     /\ InitStep =>
          /\ Len(coins') <= COIN_COUNT
          /\ Len(coins') < COIN_COUNT => missed'
          /\ \A i \in 1 .. Len(coins') :
               /\ ~SomeAt(snake', coins'[i].x, coins'[i].y)
               /\ \A j \in 1 .. Len(coins') : i # j => coins'[i] # coins'[j]]_vars

\* C20's case: all three coins were there, a Tick has just collected one and
\* the call of spawnCoin gave up: two coins are left.
C20_Witness ==
  /\ pc = "draw"
  /\ lastOp = "collect"
  /\ missed
  /\ Len(coins) = COIN_COUNT - 1

\* C15 as stated: however many times loadData has run to its end, every
\* recurring category has at most one budget row for next month and at most
\* one roll-forward transaction dated in next month.
C15_RollForwardIdempotent ==
  NoRunInFlight /\ loadRuns > 0 =>
    \A cat \in Categories : budgetRows[cat] <= 1 /\ txRows[cat].recurring <= 1

\* The animation a is in the array anims with the frame f.
Shown(anims, a, f) ==
  \E j \in 1 .. Len(anims) : anims[j].x = a.x /\ anims[j].y = a.y /\ anims[j].frame = f

\* The step keeps every animation except those a call of drawFrame ages beyond
\* ANIM_FRAMES: drawFrame leaves the others with their frame raised by 1, and any
\* other step leaves them as they are.
KeepsAnimations ==
  \A i \in 1 .. Len(collectAnimations) :
    LET a == collectAnimations[i]
    IN IF DrawStep
       THEN a.frame + 1 > ANIM_FRAMES \/ Shown(collectAnimations', a, a.frame + 1)
       ELSE Shown(collectAnimations', a, a.frame)

\* C21 as stated: an animation stays in collectAnimations until drawFrame has
\* raised its frame beyond ANIM_FRAMES; no other step removes one.
C21_OnlyExpiryRemoves == [][KeepsAnimations]_vars

\* C21 as amended: an animation stays in collectAnimations until drawFrame has
\* raised its frame beyond ANIM_FRAMES or initGame has run, which empties the
\* array; no other step removes one, and every frame is within 0 .. ANIM_FRAMES.
C21_ExpiryOrInitRemoves ==
  /\ [][IF InitStep THEN collectAnimations' = <<>> ELSE KeepsAnimations]_vars
  /\ [](\A i \in 1 .. Len(collectAnimations) :
          collectAnimations[i].frame \in 0 .. ANIM_FRAMES)

\* C21's case: an animation has been painted with every frame up to
\* ANIM_FRAMES - 1 and a Tick has gone by; the coming drawFrame paints it with
\* ANIM_FRAMES and removes it.
C21_Witness ==
  /\ pc = "draw"
  /\ lastOp \in {"move", "collect"}
  /\ Len(collectAnimations) >= 1
  /\ collectAnimations[1].frame = ANIM_FRAMES

\* C22: a call of initGame(width, height), whatever the state before it, leaves
\* cols = floor(width / CELL_SIZE) and rows = floor(height / CELL_SIZE), the
\* snake on the 5 cells (floor(cols / 4) - 4 .. floor(cols / 4), floor(rows / 2))
\* from tail to head, the direction right, no animation, and coins that its own
\* spawnCoin calls placed, starting from none, with the draws that follow the
\* earlier ones.
C22_InitReplacesState ==
  [][InitStep =>
       LET c == canvas'.width \div CELL_SIZE
           r == canvas'.height \div CELL_SIZE
           x == c \div 4
           y == r \div 2
       IN /\ cols' = c
          /\ rows' = r
          /\ snake' = <<Point(x - 4, y), Point(x - 3, y), Point(x - 2, y), Point(x - 1, y),
                        Point(x, y)>>
          /\ direction' = "right"
          /\ collectAnimations' = <<>>
          /\ \E s \in spawnCoins(0, host.random, rng, c, r, snake', <<>>, FALSE) :
               coins' = s.coins /\ rng' = s.rng]_vars

\* C22's case: initGame has just replaced a game in which the snake had grown,
\* and has placed all its coins.
C22_Witness ==
  /\ lastOp = "reset"
  /\ Len(coins) = COIN_COUNT
  /\ cols >= 3
  /\ rows >= 3

\* The step is a resize event that follows a resize event with the same window
\* size, with nothing in between.
SecondResize == lastOp = "resize" /\ lastOp' = "resize" /\ canvas' = canvas

\* The call numbers from which initGame, on the current grid, places the
\* current coins and ends at the current call number.
ReplayStarts ==
  {q \in 0 .. (Len(host.random) - 1) :
     \E s \in spawnCoins(0, host.random, q, cols, rows, snake, <<>>, FALSE) :
        s.coins = coins /\ s.rng = rng}

\* C23: the second of two consecutive resize events with the same window size
\* leaves cols, rows, the snake, the direction and the (empty) animations as the
\* first left them; it can place the coins the first placed when it can draw
\* the same numbers, and it does place them when the draws are fixed and those
\* of the second repeat those of the first.
C23_ResizeIdempotent ==
  [][SecondResize =>
       /\ cols' = cols /\ rows' = rows
       /\ snake' = snake
       /\ direction' = direction
       /\ collectAnimations' = collectAnimations
       /\ (Len(host.random) = 1 => rng \in ReplayStarts)
       /\ (IsFixed(host.random) /\ rng \in ReplayStarts => coins' = coins)]_vars

\* C23's case: a resize event has run on a game that a resize event with the
\* same draws on the same window left.
C23_Witness ==
  /\ lastOp = "resize"
  /\ IsFixed(host.random)
  /\ rng \in ReplayStarts
  /\ Len(coins) = COIN_COUNT

\* C24: a Tick that neither resets nor collects leaves the snake without its
\* first segment and with a new head, one cell from the old head in the chosen
\* direction, as its last; the number of segments, the coins, the animations,
\* cols and rows are as before.
C24_PlainMoveShifts ==
  [][TickStep /\ lastOp' = "move" =>
       /\ snake' = Append(Shift(snake),
                          Point(HeadOf(snake).x + DIRECTIONS[direction'].x,
                                HeadOf(snake).y + DIRECTIONS[direction'].y))
       /\ Len(snake') = Len(snake)
       /\ coins' = coins
       /\ collectAnimations' = collectAnimations
       /\ cols' = cols /\ rows' = rows]_vars

\* C24's case: a Tick has just moved, without collecting, a snake that had
\* grown, with coins on the grid and an animation running.
C24_Witness ==
  /\ pc = "draw"
  /\ lastOp = "move"
  /\ Len(snake) > SNAKE_INITIAL_LENGTH
  /\ Len(coins) > 0
  /\ Len(collectAnimations) > 0

\* C25: a loop callback has no request pending while it runs and leaves exactly
\* one pending after its drawFrame; so, when pending callbacks are run, a
\* component that stays mounted draws again and again, and, every callback
\* coming later than the one before, calls moveSnake again and again.
C25_LoopKeepsRunning ==
  /\ [][DrawStep => ~rafPending /\ rafPending']_vars
  /\ ([]<>(phase # "mounted") \/ []<><<DrawStep>>_vars)
  /\ ([]<>(phase # "mounted") \/ []<><<TickStep>>_vars)

\* C25's case: a callback that came too early to move the snake has drawn and
\* requested the next callback.
C25_Witness ==
  /\ phase = "mounted"
  /\ lastOp = "draw"
  /\ rafPending
  /\ elapsed > 0

\* C26: once the game is initialised, whatever has run since, no coin is on a
\* cell of the snake.
C26_CoinsOffSnake ==
  phase # "created" =>
    \A i \in 1 .. Len(coins) : ~SomeAt(snake, coins[i].x, coins[i].y)

\* C26's case: a Tick has just moved a snake that had grown, without
\* collecting, onto a cell next to a coin.
C26_Witness ==
  /\ pc = "draw"
  /\ lastOp = "move"
  /\ Len(snake) > SNAKE_INITIAL_LENGTH
  /\ \E i \in 1 .. Len(coins) : Manhattan(coins[i], HeadOf(snake)) = 1

\* C27: once the game is initialised the snake is a path: consecutive segments
\* are one cell apart, and the segment before the head is the cell one step
\* back from the head against the current direction.
C27_SnakeIsPath ==
  phase # "created" =>
    /\ Len(snake) >= 2
    /\ \A i \in 1 .. (Len(snake) - 1) : Manhattan(snake[i], snake[i + 1]) = 1
    /\ snake[Len(snake) - 1] =
         Point(HeadOf(snake).x - DIRECTIONS[direction].x,
               HeadOf(snake).y - DIRECTIONS[direction].y)

\* C27's case: a Tick has just moved the head up or down on a snake that has
\* bends further back.
C27_Witness ==
  /\ pc = "draw"
  /\ lastOp \in {"move", "collect"}
  /\ direction \in {"up", "down"}
  /\ \E i \in 2 .. (Len(snake) - 2) :
       /\ snake[i - 1].y = snake[i].y
       /\ snake[i].x = snake[i + 1].x
       /\ snake[Len(snake) - 2].y = snake[Len(snake) - 1].y

\* C28: a reset inside a Tick leaves the canvas, cols and rows as they were, and
\* a step that changes cols or rows is a call of resize(), at the mount or on a
\* resize event.
C28_ResetKeepsGrid ==
  /\ [][ResetStep => canvas' = canvas /\ cols' = cols /\ rows' = rows]_vars
  /\ [][cols' # cols \/ rows' # rows => lastOp' \in {"mount", "resize"}]_vars

\* C28's case: a collision has just reset the game on the grid of the canvas.
C28_Witness ==
  /\ pc = "draw"
  /\ lastOp = "reset"
  /\ cols = canvas.width \div CELL_SIZE
  /\ rows = canvas.height \div CELL_SIZE
  /\ rows > 0

\* C29 as stated: when loadData runs for the current month overlap, no
\* recurring category gets more than one budget row for next month or more
\* than one roll-forward transaction dated in next month.
C29_NoDuplicatesWhenOverlapping ==
  \A cat \in Categories : budgetRows[cat] <= 1 /\ txRows[cat].recurring <= 1

\* C30 as stated: when handleToggleRecurring disables the recurrence of a
\* category that it enabled before, the budget rows and the transactions of
\* that category for next month are again what they were before the enabling.
C30_ToggleRoundTrip ==
  [][\A cat \in Categories :
       cat \in recurringBudgets /\ cat \notin recurringBudgets' =>
         /\ budgetRows'[cat] = beforeEnable[cat].budget
         /\ txRows'[cat] = beforeEnable[cat].tx]_pageVars

====
